---- MODULE Spec2Model ----
(***************************************************************************)
(* A model of three programs of the repository:                            *)
(*   - src/game.py                  the turn-based adventure game (Spec)   *)
(*   - src/automation.py            the input-automation script (SpecAuto) *)
(*   - src/game_state_generator.py  the board generator (SpecGen)          *)
(* Each program has its own specification over the shared variables; the   *)
(* variables of the other program keep their initial values.               *)
(***************************************************************************)
EXTENDS Integers, Sequences, FiniteSets, TLC

VARIABLES
    pc,         \* game process: "off" | "running" | "crashed"
    gs,         \* Game.game_state, a GameState record (NoState while off)
    files,      \* the working directory: file name -> [kind, data, mtime]
    clock,      \* the file system's modification-time clock
    used,       \* the budgets spent: [runs, work]
    saved,      \* ghost: file name -> the GameState save_game_state dumped there
    last_load,  \* ghost: what the latest load_game_state call did
    auto,       \* the automation script's state (src/automation.py)
    gen         \* the latest generate_game_state_json call and its result

vars == <<pc, gs, files, clock, used, saved, last_load, auto, gen>>

----------------------------------------------------------------------------
(* Bounds of the model.                                                    *)

\* The world of src/game.py:17-18 is 64 x 48; the model checks a scaled
\* world, so that the border, the walls and the entities are within the
\* reach of a few moves.
GRID_WIDTH == 9
GRID_HEIGHT == 8
\* generate_world places 25 wall structures, 15 water features, 20 enemies,
\* 25 treasures and 8 door/key pairs (src/game.py:188,198,207,217,239).
NumStructures == 1
NumWater == 1
NumEnemies == 1
NumTreasures == 1
NumDoors == 1
\* get_random_empty_position tries 100 times (src/game.py:247).
NumTries == 8
\* Over one behaviour: the starts of the game process, and the work done
\* (turns played, save files written and random events of update()).
MaxRuns == 2
MaxWork == 2

----------------------------------------------------------------------------
(* Python's random module.  The state of the generator when a handler      *)
(* starts is not determined by the game state (update() draws once per     *)
(* frame, 60 times a second), so every handler starts from a generator     *)
(* state drawn from RngStates; the draws inside one handler follow from    *)
(* that state.  The Mersenne Twister is abstracted by a small linear       *)
(* congruential generator.                                                 *)

RngM == 65537

RngNext(r) == (r * 75 + 74) % RngM

\* random.randint(lo, hi) drawn in state r (the state after the draw is
\* RngNext(r)).
randint(r, lo, hi) == lo + (RngNext(r) % (hi - lo + 1))

\* random.random() < p, p given in thousandths.
random_lt(r, p) == (RngNext(r) % 1000) < p

\* random.seed(k): the state is a function of k alone.
random_seed(k) == (k * 7919 + 13) % RngM

\* random.getstate()[1][0]: a word of the generator's internal state.
random_state_word(r) == (r * 31 + 7) % RngM

\* The generator states a handler may find the random module in.
RngStates == { random_seed(1), random_seed(2) }

----------------------------------------------------------------------------
(* Records of src/game.py.                                                 *)

GRASS == "grass"
WALL == "wall"
WATER == "water"

Position(x, y) == [x |-> x, y |-> y]

Player(position, health, score, keys, level, experience) ==
    [position |-> position, health |-> health, score |-> score,
     keys |-> keys, level |-> level, experience |-> experience]

Enemy(position, health, reward, enemy_type) ==
    [position |-> position, health |-> health, reward |-> reward,
     enemy_type |-> enemy_type]

Treasure(position, value, treasure_type) ==
    [position |-> position, value |-> value, treasure_type |-> treasure_type]

NPC(position, name, dialogue, quest_reward) ==
    [position |-> position, name |-> name, dialogue |-> dialogue,
     quest_reward |-> quest_reward]

enemy_types == <<"goblin", "orc", "skeleton", "spider">>
treasure_types == <<"gold", "gem", "artifact", "potion">>
npc_data ==
    << <<"Merchant", "Welcome, traveler! I have wares for sale.", 0>>,
       <<"Wizard", "I sense great potential in you. Complete my quest for a reward!", 100>>,
       <<"Guard", "Stay safe out there. Danger lurks in these lands.", 50>>,
       <<"Healer", "Let me restore your health, brave adventurer.", 0>> >>

\* A threaded result: a game state (or a map) and the generator state.
SR(s, r) == [s |-> s, r |-> r]

\* TLC evaluates an operator's arguments when they are first used.  A loop
\* that tests Ready(sr) evaluates the result of its previous iteration
\* before it starts the next one, which keeps the evaluation stack shallow.
Ready(sr) == sr.r >= 0

----------------------------------------------------------------------------
(* GameState.generate_world and its helpers.                               *)

is_position_occupied(st, pos) ==
    \/ \E i \in 1..Len(st.enemies) : st.enemies[i].position = pos
    \/ \E i \in 1..Len(st.treasures) : st.treasures[i].position = pos
    \/ \E i \in 1..Len(st.npcs) : st.npcs[i].position = pos
    \/ \E i \in 1..Len(st.doors) : st.doors[i] = pos
    \/ \E i \in 1..Len(st.keys_positions) : st.keys_positions[i] = pos

NoPos == [x |-> -1, y |-> -1]

\* The loop of get_random_empty_position with n tries left: [pos, found, r].
RECURSIVE TryPositions(_, _, _)
TryPositions(st, r, n) ==
    IF n = 0 THEN [pos |-> NoPos, found |-> FALSE, r |-> r]
    ELSE LET x == randint(r, 2, GRID_WIDTH - 3)
             r1 == RngNext(r)
             y == randint(r1, 2, GRID_HEIGHT - 3)
             r2 == RngNext(r1)
             pos == Position(x, y)
         IN IF /\ st.world_map[y][x] = GRASS
               /\ ~is_position_occupied(st, pos)
               /\ pos.x # st.player.position.x /\ pos.y # st.player.position.y
            THEN [pos |-> pos, found |-> TRUE, r |-> r2]
            ELSE TryPositions(st, r2, n - 1)

get_random_empty_position(st, r) == TryPositions(st, r, NumTries)

\* One column of a structure: the tiles (x+dx, y..y+ny-1) inside the limits.
FillColumn(m, tile, x, y, dx, ny, xlim, ylim) ==
    [yy \in 0..GRID_HEIGHT - 1 |->
        [xx \in 0..GRID_WIDTH - 1 |->
            IF /\ xx = x + dx /\ yy >= y /\ yy < y + ny
               /\ xx < xlim /\ yy < ylim
            THEN tile ELSE m[yy][xx]]]

\* for dx in range(nx): for dy in range(random.randint(lo, hi)): ...
\* The inner range is drawn anew for every dx.
RECURSIVE FillColumns(_, _, _, _, _, _, _, _, _, _, _)
FillColumns(m, r, tile, x, y, dx, nx, lo, hi, xlim, ylim) ==
    IF dx >= nx THEN SR(m, r)
    ELSE LET ny == randint(r, lo, hi)
         IN FillColumns(FillColumn(m, tile, x, y, dx, ny, xlim, ylim),
                        RngNext(r), tile, x, y, dx + 1, nx, lo, hi, xlim, ylim)

\* One wall structure (the body of the loop at src/game.py:188-195).
WallStructure(m, r) ==
    LET x == randint(r, 2, GRID_WIDTH - 3)
        y == randint(RngNext(r), 2, GRID_HEIGHT - 3)
        nx == randint(RngNext(RngNext(r)), 1, 4)
    IN FillColumns(m, RngNext(RngNext(RngNext(r))), WALL, x, y, 0, nx, 1, 3,
                   GRID_WIDTH - 1, GRID_HEIGHT - 1)

\* for _ in range(25), n structures left; mr is the map and the generator.
RECURSIVE AddWalls(_, _)
AddWalls(mr, n) ==
    IF ~Ready(mr) \/ n = 0 THEN mr
    ELSE AddWalls(WallStructure(mr.s, mr.r), n - 1)

\* One water feature (the body of the loop at src/game.py:198-204).
WaterFeature(m, r) ==
    LET x == randint(r, 3, GRID_WIDTH - 4)
        y == randint(RngNext(r), 3, GRID_HEIGHT - 4)
        nx == randint(RngNext(RngNext(r)), 2, 4)
    IN FillColumns(m, RngNext(RngNext(RngNext(r))), WATER, x, y, 0, nx, 2, 4,
                   GRID_WIDTH - 2, GRID_HEIGHT - 2)

RECURSIVE AddWater(_, _)
AddWater(mr, n) ==
    IF ~Ready(mr) \/ n = 0 THEN mr
    ELSE AddWater(WaterFeature(mr.s, mr.r), n - 1)

\* Grass everywhere, walls around the border (src/game.py:177-185).
BorderedMap ==
    [y \in 0..GRID_HEIGHT - 1 |->
        [x \in 0..GRID_WIDTH - 1 |->
            IF x = 0 \/ x = GRID_WIDTH - 1 \/ y = 0 \/ y = GRID_HEIGHT - 1
            THEN WALL ELSE GRASS]]

\* The body of the enemy loop; p is what get_random_empty_position gave.
PlaceEnemy(st, p) ==
    IF ~p.found THEN SR(st, p.r)
    ELSE LET enemy_type == enemy_types[1 + randint(p.r, 0, Len(enemy_types) - 1)]
             health == randint(RngNext(p.r), 20, 50)
             reward == randint(RngNext(RngNext(p.r)), 10, 30)
         IN SR([st EXCEPT !.enemies = Append(@, Enemy(p.pos, health, reward, enemy_type))],
               RngNext(RngNext(RngNext(p.r))))

RECURSIVE AddEnemies(_, _)
AddEnemies(sr, n) ==
    IF ~Ready(sr) \/ n = 0 THEN sr
    ELSE AddEnemies(PlaceEnemy(sr.s, get_random_empty_position(sr.s, sr.r)), n - 1)

PlaceTreasure(st, p) ==
    IF ~p.found THEN SR(st, p.r)
    ELSE LET treasure_type ==
                 treasure_types[1 + randint(p.r, 0, Len(treasure_types) - 1)]
             value == randint(RngNext(p.r), 50, 200)
         IN SR([st EXCEPT !.treasures = Append(@, Treasure(p.pos, value, treasure_type))],
               RngNext(RngNext(p.r)))

RECURSIVE AddTreasures(_, _)
AddTreasures(sr, n) ==
    IF ~Ready(sr) \/ n = 0 THEN sr
    ELSE AddTreasures(PlaceTreasure(sr.s, get_random_empty_position(sr.s, sr.r)), n - 1)

PlaceNpc(st, p, d) ==
    IF ~p.found THEN SR(st, p.r)
    ELSE SR([st EXCEPT !.npcs = Append(@, NPC(p.pos, d[1], d[2], d[3]))], p.r)

\* for name, dialogue, reward in npc_data, from entry i on.
RECURSIVE AddNpcs(_, _)
AddNpcs(sr, i) ==
    IF ~Ready(sr) \/ i > Len(npc_data) THEN sr
    ELSE AddNpcs(PlaceNpc(sr.s, get_random_empty_position(sr.s, sr.r), npc_data[i]),
                 i + 1)

\* A door and its key are both drawn before either is appended.
PlaceKey(st, door, key) ==
    IF door.found /\ key.found
    THEN SR([st EXCEPT !.doors = Append(@, door.pos),
                       !.keys_positions = Append(@, key.pos)], key.r)
    ELSE SR(st, key.r)

PlaceDoor(st, door) == PlaceKey(st, door, get_random_empty_position(st, door.r))

RECURSIVE AddDoors(_, _)
AddDoors(sr, n) ==
    IF ~Ready(sr) \/ n = 0 THEN sr
    ELSE AddDoors(PlaceDoor(sr.s, get_random_empty_position(sr.s, sr.r)), n - 1)

WithMap(st, mr) == SR([st EXCEPT !.world_map = mr.s], mr.r)

\* generate_world: a new world_map; the entities are appended to the lists
\* the state already holds.
generate_world(st, r) ==
    AddDoors(
        AddNpcs(
            AddTreasures(
                AddEnemies(
                    WithMap(st, AddWater(AddWalls(SR(BorderedMap, r), NumStructures),
                                         NumWater)),
                    NumEnemies),
                NumTreasures),
            1),
        NumDoors)

\* GameState.__init__
NewGameState(r) ==
    generate_world(
        [player |-> Player(Position(GRID_WIDTH \div 2, GRID_HEIGHT \div 2), 100, 0, 0, 1, 0),
         enemies |-> <<>>, treasures |-> <<>>, npcs |-> <<>>,
         world_map |-> BorderedMap,
         doors |-> <<>>, keys_positions |-> <<>>,
         turn_count |-> 0, game_over |-> FALSE, victory |-> FALSE], r)

----------------------------------------------------------------------------
(* Strings that the code takes apart are sequences of characters.          *)

startswith(s, p) == Len(s) >= Len(p) /\ SubSeq(s, 1, Len(p)) = p
endswith(s, p) == Len(s) >= Len(p) /\ SubSeq(s, Len(s) - Len(p) + 1, Len(s)) = p

DigitChars == <<"0", "1", "2", "3", "4", "5", "6", "7", "8", "9">>

\* str(n) for n >= 0
RECURSIVE Digits(_)
Digits(n) == IF n < 10 THEN <<DigitChars[n + 1]>>
             ELSE Digits(n \div 10) \o <<DigitChars[(n % 10) + 1]>>

\* f"{n:0{w}d}" for n >= 0: zero-padded to at least w characters
RECURSIVE ZeroPad(_, _)
ZeroPad(s, w) == IF Len(s) >= w THEN s ELSE ZeroPad(<<"0">> \o s, w)

----------------------------------------------------------------------------
(* to_dict / from_dict (src/game.py:52-156, 276-308).  A dict is a record; *)
(* a key the dict lacks is a field the record lacks.                       *)

HasKeys(d, ks) == ks \subseteq DOMAIN d

Position_to_dict(p) == [x |-> p.x, y |-> p.y]
Position_from_dict(data) == Position(data.x, data.y)

Player_to_dict(p) ==
    [position |-> Position_to_dict(p.position), health |-> p.health,
     score |-> p.score, keys |-> p.keys, level |-> p.level,
     experience |-> p.experience]
\* A faulty variant of Player_from_dict: health and score change places.
Player_from_dict_swapped(data) ==
    Player(Position_from_dict(data.position), data.score, data.health,
           data.keys, data.level, data.experience)

Player_from_dict(data) ==
    Player(Position_from_dict(data.position), data.health, data.score,
           data.keys, data.level, data.experience)

Enemy_to_dict(e) ==
    [position |-> Position_to_dict(e.position), health |-> e.health,
     reward |-> e.reward, enemy_type |-> e.enemy_type]
Enemy_from_dict(data) ==
    Enemy(Position_from_dict(data.position), data.health, data.reward,
          data.enemy_type)

Treasure_to_dict(t) ==
    [position |-> Position_to_dict(t.position), value |-> t.value,
     treasure_type |-> t.treasure_type]
Treasure_from_dict(data) ==
    Treasure(Position_from_dict(data.position), data.value, data.treasure_type)

NPC_to_dict(n) ==
    [position |-> Position_to_dict(n.position), name |-> n.name,
     dialogue |-> n.dialogue, quest_reward |-> n.quest_reward]
NPC_from_dict(data) ==
    NPC(Position_from_dict(data.position), data.name, data.dialogue,
        data.quest_reward)

\* r is the state random.getstate() finds the generator in.
GameState_to_dict(st, r) ==
    [player |-> Player_to_dict(st.player),
     enemies |-> [i \in 1..Len(st.enemies) |-> Enemy_to_dict(st.enemies[i])],
     treasures |-> [i \in 1..Len(st.treasures) |-> Treasure_to_dict(st.treasures[i])],
     npcs |-> [i \in 1..Len(st.npcs) |-> NPC_to_dict(st.npcs[i])],
     doors |-> [i \in 1..Len(st.doors) |-> [x |-> st.doors[i].x, y |-> st.doors[i].y]],
     keys_positions |-> [i \in 1..Len(st.keys_positions) |->
                           [x |-> st.keys_positions[i].x, y |-> st.keys_positions[i].y]],
     turn_count |-> st.turn_count,
     game_over |-> st.game_over,
     victory |-> st.victory,
     world_seed |-> random_state_word(r)]

\* The keys whose lookup raises KeyError when the dict lacks them.
RequiredKeys ==
    {"player", "enemies", "treasures", "npcs", "doors", "keys_positions",
     "turn_count", "game_over", "victory"}
PlayerKeys == {"position", "health", "score", "keys", "level", "experience"}

\* The dict's fields over the state cls() made.
LoadedFields(state, data) ==
    [state EXCEPT
       !.player = Player_from_dict(data.player),
       !.enemies = [i \in 1..Len(data.enemies) |-> Enemy_from_dict(data.enemies[i])],
       !.treasures = [i \in 1..Len(data.treasures) |->
                         Treasure_from_dict(data.treasures[i])],
       !.npcs = [i \in 1..Len(data.npcs) |-> NPC_from_dict(data.npcs[i])],
       !.doors = [i \in 1..Len(data.doors) |->
                     Position(data.doors[i].x, data.doors[i].y)],
       !.keys_positions = [i \in 1..Len(data.keys_positions) |->
                              Position(data.keys_positions[i].x,
                                       data.keys_positions[i].y)],
       !.turn_count = data.turn_count,
       !.game_over = data.game_over,
       !.victory = data.victory]

Loaded(sr) == [ok |-> TRUE, s |-> sr.s, r |-> sr.r]

\* from_dict after state = cls(), which gave fresh.
FromDictOver(fresh, data) ==
    IF ~(HasKeys(data, RequiredKeys) /\ HasKeys(data.player, PlayerKeys))
    THEN [ok |-> FALSE, s |-> fresh.s, r |-> fresh.r]
    ELSE IF "world_seed" \in DOMAIN data
    THEN Loaded(generate_world(LoadedFields(fresh.s, data), random_seed(data.world_seed)))
    ELSE Loaded(SR(LoadedFields(fresh.s, data), fresh.r))

\* GameState.from_dict: [ok, s, r]; ok is FALSE when a lookup raised KeyError.
GameState_from_dict(data, r) == FromDictOver(NewGameState(r), data)

----------------------------------------------------------------------------
(* The working directory and load_game_state / save_game_state             *)
(* (src/game.py:333-359).  A file is [kind, data, mtime]: kind "json" (data *)
(* is the parsed document), "invalid" (json.load raises) or "unreadable"    *)
(* (open raises).                                                           *)

NoData == [none |-> TRUE]
JsonFile(data, mtime) == [kind |-> "json", data |-> data, mtime |-> mtime]
BadFile(kind, mtime) == [kind |-> kind, data |-> NoData, mtime |-> mtime]

SavePrefix == <<"s", "a", "v", "e", "_">>
JsonSuffix == <<".", "j", "s", "o", "n">>

\* f"save_game_{turn_count:04d}.json"
SaveFileName(turn_count) ==
    <<"s", "a", "v", "e", "_", "g", "a", "m", "e", "_">> \o ZeroPad(Digits(turn_count), 4) \o JsonSuffix

\* [f for f in os.listdir('.') if f.endswith('.json') and f.startswith('save_')]
json_files(fs) == { f \in DOMAIN fs : endswith(f, JsonSuffix) /\ startswith(f, SavePrefix) }

\* A faulty variant of latest_file: the greatest name (the highest turn number).
RECURSIVE NameLess(_, _)
NameLess(f, g) ==
    IF f = <<>> THEN g # <<>>
    ELSE IF g = <<>> THEN FALSE
    ELSE IF Head(f) = Head(g) THEN NameLess(Tail(f), Tail(g))
    ELSE \E i, j \in 1..Len(DigitChars) :
             i < j /\ DigitChars[i] = Head(f) /\ DigitChars[j] = Head(g)

latest_file_by_name(fs, cands) ==
    CHOOSE f \in cands : \A g \in cands : ~NameLess(f, g)

\* max(json_files, key=os.path.getmtime), for a non-empty set
latest_file(fs, cands) ==
    CHOOSE f \in cands : \A g \in cands : fs[g].mtime <= fs[f].mtime

LoadResult(st, f, outcome) ==
    [s |-> st, file |-> f, outcome |-> outcome, raised |-> FALSE]

\* The try block of load_game_state on file f, whose from_dict gave got.
LoadedOrFallback(f, got) ==
    IF got.ok THEN LoadResult(got.s, f, "loaded")
    ELSE LoadResult(NewGameState(got.r).s, f, "fallback")

\* A faulty variant of LoadLatest: the try block without its except.
LoadLatest_unguarded(fs, f, r) ==
    IF fs[f].kind # "json" \/ ~GameState_from_dict(fs[f].data, r).ok
    THEN [s |-> [none |-> TRUE], file |-> f, outcome |-> "raised", raised |-> TRUE]
    ELSE LoadResult(GameState_from_dict(fs[f].data, r).s, f, "loaded")

LoadLatest(fs, f, r) ==
    IF fs[f].kind # "json" THEN LoadResult(NewGameState(r).s, f, "fallback")
    ELSE LoadedOrFallback(f, GameState_from_dict(fs[f].data, r))

\* load_game_state: [s, file, outcome, raised]; outcome is "new" (no
\* candidate), "loaded" or "fallback" (the except branch).  It has no path
\* that raises.
load_game_state(fs, r) ==
    IF json_files(fs) = {} THEN LoadResult(NewGameState(r).s, <<>>, "new")
    ELSE LoadLatest(fs, latest_file(fs, json_files(fs)), r)

\* save_game_state: the directory after the call.  how is what the file
\* system did: "ok", "open_error" (open raised, the file is untouched) or
\* "write_error" (json.dump raised after open truncated the file).
save_game_state(st, fs, now, r, how) ==
    LET filename == SaveFileName(st.turn_count)
        others == [f \in DOMAIN fs \ {filename} |-> fs[f]]
    IN CASE how = "ok" -> (filename :> JsonFile(GameState_to_dict(st, r), now)) @@ others
         [] how = "write_error" -> (filename :> BadFile("invalid", now)) @@ others
         [] OTHER -> fs

----------------------------------------------------------------------------
(* The handlers of Game (src/game.py:395-571, 810-843).  The message shown *)
(* on screen (show_message) and the drawing code are not modelled.         *)

InGrid(pos) ==
    pos.x >= 0 /\ pos.x < GRID_WIDTH /\ pos.y >= 0 /\ pos.y < GRID_HEIGHT

\* A faulty variant of is_valid_move: every move is accepted.
is_valid_move_any(st, pos) == TRUE

\* A faulty variant of is_valid_move: enemies do not block the way.
is_valid_move_past_enemies(st, pos) ==
    IF pos.x < 0 \/ pos.x >= GRID_WIDTH \/ pos.y < 0 \/ pos.y >= GRID_HEIGHT
    THEN FALSE
    ELSE IF st.world_map[pos.y][pos.x] \in {WALL, WATER} THEN FALSE
    ELSE IF \E i \in 1..Len(st.doors) : st.doors[i] = pos /\ st.player.keys = 0
         THEN FALSE
    ELSE TRUE

\* A faulty variant of is_valid_move: a door stops nobody.
is_valid_move_open_doors(st, pos) ==
    IF pos.x < 0 \/ pos.x >= GRID_WIDTH \/ pos.y < 0 \/ pos.y >= GRID_HEIGHT
    THEN FALSE
    ELSE IF st.world_map[pos.y][pos.x] \in {WALL, WATER} THEN FALSE
    ELSE IF \E i \in 1..Len(st.enemies) : st.enemies[i].position = pos THEN FALSE
    ELSE TRUE

is_valid_move(st, pos) ==
    IF pos.x < 0 \/ pos.x >= GRID_WIDTH \/ pos.y < 0 \/ pos.y >= GRID_HEIGHT
    THEN FALSE
    ELSE IF st.world_map[pos.y][pos.x] \in {WALL, WATER} THEN FALSE
    ELSE IF \E i \in 1..Len(st.enemies) : st.enemies[i].position = pos THEN FALSE
    ELSE IF \E i \in 1..Len(st.doors) : st.doors[i] = pos /\ st.player.keys = 0
         THEN FALSE
    ELSE TRUE

\* list.pop(i), i counted from 1
Pop(seq, i) == SubSeq(seq, 1, i - 1) \o SubSeq(seq, i + 1, Len(seq))

\* The first index of a non-empty set of indexes.
First(S) == CHOOSE i \in S : \A j \in S : i <= j

Min(a, b) == IF a < b THEN a ELSE b
Abs(a) == IF a < 0 THEN -a ELSE a

check_for_interactions(st) ==
    LET pos == st.player.position
        ts == { i \in 1..Len(st.treasures) : st.treasures[i].position = pos }
        s1 == IF ts = {} THEN st
              ELSE [st EXCEPT !.player.score = @ + st.treasures[First(ts)].value,
                              !.treasures = Pop(@, First(ts))]
        ks == { i \in 1..Len(s1.keys_positions) : s1.keys_positions[i] = pos }
    IN IF ks = {} THEN s1
       ELSE [s1 EXCEPT !.player.keys = @ + 1,
                       !.keys_positions = Pop(@, First(ks))]

\* One enemy's step towards the player.
EnemyTarget(st, e) ==
    LET dx == st.player.position.x - e.position.x
        dy == st.player.position.y - e.position.y
    IN IF Abs(dx) > Abs(dy)
       THEN Position(e.position.x + (IF dx > 0 THEN 1 ELSE -1), e.position.y)
       ELSE Position(e.position.x, e.position.y + (IF dy > 0 THEN 1 ELSE -1))

\* A faulty variant of EnemyMoveOk: enemies walk over walls and water.
EnemyMoveOk_anywhere(st, pos) ==
    /\ 0 <= pos.x /\ pos.x < GRID_WIDTH /\ 0 <= pos.y /\ pos.y < GRID_HEIGHT
    /\ ~(pos.x = st.player.position.x /\ pos.y = st.player.position.y)

EnemyMoveOk(st, pos) ==
    /\ 0 <= pos.x /\ pos.x < GRID_WIDTH /\ 0 <= pos.y /\ pos.y < GRID_HEIGHT
    /\ st.world_map[pos.y][pos.x] \notin {WALL, WATER}
    /\ ~(pos.x = st.player.position.x /\ pos.y = st.player.position.y)

\* for enemy in enemies, from enemy i on
RECURSIVE UpdateEnemiesFrom(_, _, _)
UpdateEnemiesFrom(st, r, i) ==
    IF i > Len(st.enemies) THEN SR(st, r)
    ELSE LET target == EnemyTarget(st, st.enemies[i])
             s1 == IF random_lt(r, 300) /\ EnemyMoveOk(st, target)
                   THEN [st EXCEPT !.enemies[i].position = target]
                   ELSE st
         IN UpdateEnemiesFrom(s1, RngNext(r), i + 1)

update_enemies(st, r) == UpdateEnemiesFrom(st, r, 1)

interaction_offsets == << <<0, 1>>, <<0, -1>>, <<1, 0>>, <<-1, 0>>, <<0, 0>> >>

\* The attack on enemy i (src/game.py:470-487).
AttackEnemy(st, r, i) ==
    LET enemy == st.enemies[i]
        damage == randint(r, 15, 25) + st.player.level * 5
        health == enemy.health - damage
        hit == [st EXCEPT !.enemies[i].health = health]
        dead == [hit EXCEPT !.player.score = @ + enemy.reward,
                            !.player.experience = @ + (enemy.reward \div 2),
                            !.enemies = Pop(@, i)]
        levelled == IF dead.player.experience >= dead.player.level * 100
                    THEN [dead EXCEPT !.player.level = @ + 1,
                                      !.player.health = Min(100, @ + 20)]
                    ELSE dead
        after == IF health <= 0 THEN levelled ELSE hit
    IN [after EXCEPT !.turn_count = @ + 1]

\* A faulty variant of TalkToNpc: talking takes no turn.
TalkToNpc_free(st, i) ==
    IF st.npcs[i].quest_reward > 0
    THEN [st EXCEPT !.player.score = @ + st.npcs[i].quest_reward,
                    !.npcs[i].quest_reward = 0]
    ELSE st

\* The talk to npc i (src/game.py:492-498).
TalkToNpc(st, i) ==
    LET npc == st.npcs[i]
        paid == IF npc.quest_reward > 0
                THEN [st EXCEPT !.player.score = @ + npc.quest_reward,
                                !.npcs[i].quest_reward = 0]
                ELSE st
    IN [paid EXCEPT !.turn_count = @ + 1]

\* The items on the player's tile (src/game.py:500-529).
InteractWithItems(st) ==
    LET pos == st.player.position
        ts == { i \in 1..Len(st.treasures) : st.treasures[i].position = pos }
        ks == { i \in 1..Len(st.keys_positions) : st.keys_positions[i] = pos }
        ds == { i \in 1..Len(st.doors) : st.doors[i] = pos /\ st.player.keys > 0 }
    IN IF ts # {}
       THEN [st EXCEPT !.player.score = @ + st.treasures[First(ts)].value,
                       !.treasures = Pop(@, First(ts)),
                       !.turn_count = @ + 1]
       ELSE IF ks # {}
       THEN [st EXCEPT !.player.keys = @ + 1,
                       !.keys_positions = Pop(@, First(ks)),
                       !.turn_count = @ + 1]
       ELSE IF ds # {}
       THEN [st EXCEPT !.player.keys = @ - 1,
                       !.player.score = @ + 100,
                       !.doors = Pop(@, First(ds)),
                       !.turn_count = @ + 1]
       ELSE st

\* for dx, dy in [...], from offset k on
RECURSIVE InteractFrom(_, _, _)
InteractFrom(st, r, k) ==
    IF k > Len(interaction_offsets) THEN InteractWithItems(st)
    ELSE LET check == Position(st.player.position.x + interaction_offsets[k][1],
                               st.player.position.y + interaction_offsets[k][2])
             es == { i \in 1..Len(st.enemies) : st.enemies[i].position = check }
             ns == { i \in 1..Len(st.npcs) : st.npcs[i].position = check }
         IN IF es # {} THEN AttackEnemy(st, r, First(es))
            ELSE IF ns # {} THEN TalkToNpc(st, First(ns))
            ELSE InteractFrom(st, r, k + 1)

handle_interaction(st, r) == InteractFrom(st, r, 1)

MoveKeys == {"w", "a", "s", "d"}
Keys == MoveKeys \cup {"space", "f5", "r", "other"}

new_pos(st, key) ==
    LET p == st.player.position
    IN CASE key = "w" -> Position(p.x, p.y - 1)
         [] key = "s" -> Position(p.x, p.y + 1)
         [] key = "a" -> Position(p.x - 1, p.y)
         [] key = "d" -> Position(p.x + 1, p.y)

\* The game state after handle_input handled one KEYDOWN event.
handle_input(st, key, r) ==
    IF st.game_over
    THEN IF key = "r" THEN NewGameState(r).s ELSE st
    ELSE IF key \in MoveKeys
    THEN IF is_valid_move(st, new_pos(st, key))
         THEN update_enemies(
                  check_for_interactions(
                      [st EXCEPT !.player.position = new_pos(st, key),
                                 !.turn_count = @ + 1]), r).s
         ELSE st
    ELSE IF key = "space" THEN handle_interaction(st, r)
    ELSE st

\* A faulty variant of saves_on: a move saves as well.
saves_on_turn(st, key) == ~st.game_over /\ key \in MoveKeys \cup {"f5"}

\* Whether handle_input calls save_game_state for this event.
saves_on(st, key) == ~st.game_over /\ key = "f5"

\* Game.update: the win and lose conditions, then the random event ev
\* ("none" when random.random() >= 0.001).
update(st, ev) ==
    LET won == IF Len(st.enemies) = 0 /\ Len(st.treasures) <= 2
                  /\ st.player.score >= 1000
               THEN [st EXCEPT !.victory = TRUE, !.game_over = TRUE]
               ELSE st
        lost == IF won.player.health <= 0 THEN [won EXCEPT !.game_over = TRUE] ELSE won
    IN CASE ev = "health" -> [lost EXCEPT !.player.health = Min(100, @ + 20)]
         [] ev = "score" -> [lost EXCEPT !.player.score = @ + 50]
         [] ev = "experience" -> [lost EXCEPT !.player.experience = @ + 25]
         [] OTHER -> lost

----------------------------------------------------------------------------
(* The directories the game may be started in.                             *)

\* A finished game, as an earlier session saved it.
WonSave ==
    [player |-> [position |-> [x |-> 2, y |-> 2], health |-> 80, score |-> 1200,
                 keys |-> 1, level |-> 2, experience |-> 30],
     enemies |-> <<>>,
     treasures |-> <<[position |-> [x |-> 3, y |-> 2], value |-> 60,
                      treasure_type |-> "gem"]>>,
     npcs |-> <<[position |-> [x |-> 5, y |-> 3], name |-> "Guard",
                 dialogue |-> "Stay safe out there. Danger lurks in these lands.",
                 quest_reward |-> 0]>>,
     doors |-> <<>>,
     keys_positions |-> <<>>,
     turn_count |-> 2, game_over |-> TRUE, victory |-> TRUE,
     world_seed |-> 4242]

\* The save of a game in progress, the player next to the border.
LiveSave ==
    [player |-> [position |-> [x |-> 1, y |-> 1], health |-> 100, score |-> 10,
                 keys |-> 0, level |-> 1, experience |-> 10],
     enemies |-> <<[position |-> [x |-> 6, y |-> 5], health |-> 30, reward |-> 20,
                    enemy_type |-> "orc"]>>,
     treasures |-> <<>>,
     npcs |-> <<>>,
     doors |-> <<[x |-> 3, y |-> 5]>>,
     keys_positions |-> <<[x |-> 5, y |-> 2]>>,
     turn_count |-> 3, game_over |-> FALSE, victory |-> FALSE,
     world_seed |-> 977]

\* The save of a game in which the player holds a key and stands below a door.
KeySave ==
    [player |-> [position |-> [x |-> GRID_WIDTH - 2, y |-> GRID_HEIGHT - 2], health |-> 80,
                 score |-> 60, keys |-> 1, level |-> 1, experience |-> 0],
     enemies |-> <<>>,
     treasures |-> <<>>,
     npcs |-> <<>>,
     doors |-> <<[x |-> GRID_WIDTH - 2, y |-> GRID_HEIGHT - 3]>>,
     keys_positions |-> <<>>,
     turn_count |-> 5, game_over |-> FALSE, victory |-> FALSE,
     world_seed |-> 977]

\* The save of a game in which the Wizard has paid the quest reward.
PaidSave ==
    [player |-> [position |-> [x |-> 5, y |-> 1], health |-> 100, score |-> 110,
                 keys |-> 0, level |-> 1, experience |-> 0],
     enemies |-> <<>>,
     treasures |-> <<>>,
     npcs |-> <<NPC_to_dict(NPC(Position(2, 2), npc_data[1][1], npc_data[1][2], 0)),
                NPC_to_dict(NPC(Position(4, 2), npc_data[2][1], npc_data[2][2], 0)),
                NPC_to_dict(NPC(Position(2, 3), npc_data[3][1], npc_data[3][2], 50)),
                NPC_to_dict(NPC(Position(7, 3), npc_data[4][1], npc_data[4][2], 0))>>,
     doors |-> <<>>,
     keys_positions |-> <<>>,
     turn_count |-> 4, game_over |-> FALSE, victory |-> FALSE,
     world_seed |-> 977]

\* The same document without its "turn_count".
TruncatedSave == [k \in DOMAIN WonSave \ {"turn_count"} |-> WonSave[k]]

NotesJson == <<"n", "o", "t", "e", "s", ".", "j", "s", "o", "n">>
SaveNotesTxt == <<"s", "a", "v", "e", "_", "n", "o", "t", "e", "s", ".", "t", "x", "t">>
SaveSlotJson == <<"s", "a", "v", "e", "_", "s", "l", "o", "t", ".", "j", "s", "o", "n">>

InitialDirs ==
    { <<>>,
      (NotesJson :> JsonFile(WonSave, 1)) @@ (SaveFileName(7) :> BadFile("invalid", 0)),
      (SaveNotesTxt :> JsonFile(WonSave, 1)) @@ (SaveSlotJson :> BadFile("unreadable", 0)),
      (SaveFileName(1) :> JsonFile(TruncatedSave, 1)) @@ (SaveFileName(2) :> JsonFile(WonSave, 0)),
      (SaveFileName(2) :> JsonFile(WonSave, 0)),
      (SaveFileName(3) :> JsonFile(LiveSave, 1)),
      (SaveFileName(5) :> JsonFile(KeySave, 1)),
      (SaveFileName(4) :> JsonFile(PaidSave, 1)) }

\* The clock's first value: later than every file of the initial directory.
ClockStart ==
    LET mtimes == UNION { { d[f].mtime : f \in DOMAIN d } : d \in InitialDirs }
    IN 1 + CHOOSE m \in mtimes : \A n \in mtimes : n <= m

----------------------------------------------------------------------------
(* The game process (Spec).                                                *)

NoState == [none |-> TRUE]
NoLoad == [outcome |-> "none", file |-> <<>>, has_orig |-> FALSE,
           orig |-> NoState, result |-> NoState]

AutoOff == [pc |-> "off"]
GenOff == [pc |-> "off"]

Init ==
    /\ pc = "off"
    /\ gs = NoState
    /\ files \in InitialDirs
    /\ clock = ClockStart
    /\ used = [runs |-> 0, work |-> 0]
    /\ saved = <<>>
    /\ last_load = NoLoad
    /\ auto = AutoOff
    /\ gen = GenOff

\* The ghost record of a load_game_state call that gave res.
LoadRecord(res, known) ==
    [outcome |-> res.outcome, file |-> res.file, has_orig |-> known,
     orig |-> IF known THEN saved[res.file] ELSE NoState,
     result |-> res.s]

Started(res) ==
    /\ pc' = IF res.raised THEN "crashed" ELSE "running"
    /\ gs' = res.s
    /\ last_load' = LoadRecord(res, res.outcome = "loaded" /\ res.file \in DOMAIN saved)

\* Game.__init__: the process starts and loads or creates its state.
Launch(r) ==
    /\ pc = "off"
    /\ used.runs < MaxRuns
    /\ Started(load_game_state(files, r))
    /\ used' = [used EXCEPT !.runs = @ + 1]
    /\ UNCHANGED <<files, clock, saved, auto, gen>>

SaveOutcomes == {"ok", "open_error", "write_error"}

\* One KEYDOWN event through handle_input.  how is what the file system
\* does when the event makes the game save.
KeyDown(key, r, how) ==
    /\ pc = "running"
    /\ saves_on(gs, key) \/ how = "ok"
    /\ gs' = handle_input(gs, key, r)
    /\ IF saves_on(gs, key) /\ how # "open_error"
       THEN /\ files' = save_game_state(gs, files, clock, r, how)
            /\ clock' = clock + 1
            /\ saved' = LET filename == SaveFileName(gs.turn_count)
                            others == [f \in DOMAIN saved \ {filename} |-> saved[f]]
                        IN IF how = "ok" THEN (filename :> gs) @@ others ELSE others
       ELSE /\ files' = save_game_state(gs, files, clock, r, "open_error")
            /\ UNCHANGED <<clock, saved>>
    /\ used' = [used EXCEPT !.work = @ + (IF gs'.turn_count > gs.turn_count \/ files' # files
                                          THEN 1 ELSE 0)]
    /\ used'.work <= MaxWork
    /\ UNCHANGED <<pc, last_load, auto, gen>>

RandomEvents == {"health", "score", "experience"}

\* One frame's Game.update.
Update(ev) ==
    /\ pc = "running"
    /\ ev # "none" => used.work < MaxWork
    /\ gs' = update(gs, ev)
    /\ used' = [used EXCEPT !.work = @ + (IF ev = "none" THEN 0 ELSE 1)]
    /\ UNCHANGED <<pc, files, clock, saved, last_load, auto, gen>>

\* The QUIT event: the main loop ends and the process exits.
Quit ==
    /\ pc = "running"
    /\ pc' = "off"
    /\ gs' = NoState
    /\ UNCHANGED <<files, clock, used, saved, last_load, auto, gen>>

Next ==
    \/ \E r \in RngStates : Launch(r)
    \/ \E key \in Keys, r \in RngStates, how \in SaveOutcomes : KeyDown(key, r, how)
    \/ \E ev \in RandomEvents \cup {"none"} : Update(ev)
    \/ Quit

Spec == Init /\ [][Next]_vars


----------------------------------------------------------------------------
(* Properties of the game (Spec).                                          *)

\* C1: whatever keys were pressed, in a game that was generated or loaded
\* from a save, the player's position is inside the grid:
\* 0 <= x < GRID_WIDTH and 0 <= y < GRID_HEIGHT.
C1_PlayerInGrid == pc = "running" => InGrid(gs.player.position)

\* C1's case: the game was loaded from LiveSave, the player stood next to
\* the border, and a move was accepted.
C1_Witness ==
    /\ pc = "running"
    /\ last_load.outcome = "loaded"
    /\ gs.turn_count > LiveSave.turn_count
    /\ gs.player.position # Position(1, 1)

\* What C2 says the round trip keeps.
SameGame(s, t) ==
    /\ t.player.score = s.player.score
    /\ t.player.position = s.player.position
    /\ t.player.health = s.player.health
    /\ t.player.keys = s.player.keys
    /\ t.player.level = s.player.level
    /\ t.player.experience = s.player.experience
    /\ t.turn_count = s.turn_count
    /\ t.game_over = s.game_over
    /\ t.victory = s.victory

\* The state cls() makes with the generator in state q.
FreshStates == [q \in RngStates |-> NewGameState(q)]

\* from_dict(to_dict(s)), to_dict run with the generator in state r and
\* from_dict in state q.
RoundTrip(s, r, q) == FromDictOver(FreshStates[q], GameState_to_dict(s, r))

\* from_dict returned got, and got keeps what s had.
Kept(s, got) == got.ok /\ SameGame(s, got.s)

\* C2: for every state s of a running game, from_dict(to_dict(s)) succeeds
\* and has the same player score, position, health, keys, level and
\* experience and the same turn_count, game_over and victory as s.
C2_RoundTrip ==
    pc = "running" => \A r \in RngStates : Kept(gs, RoundTrip(gs, r, r))

\* C2's case: a game with a score, some turns played and a position away
\* from the start, saved and loaded back by the next process.
C2_Witness ==
    /\ pc = "running"
    /\ last_load.has_orig
    /\ last_load.orig.turn_count > 0
    /\ last_load.orig.player.score > 0
    /\ last_load.orig.player.position # Position(GRID_WIDTH \div 2, GRID_HEIGHT \div 2)
    /\ SameGame(last_load.orig, last_load.result)

\* A fresh GameState as C3 describes it.
FreshGame(s) ==
    /\ s.turn_count = 0
    /\ s.player.score = 0
    /\ s.player.health = 100
    /\ ~s.game_over

\* The file load_game_state selected cannot be read, is not JSON, or is a
\* JSON document without a required field.
BadSave(fs, f) ==
    \/ fs[f].kind # "json"
    \/ ~(RequiredKeys \subseteq DOMAIN fs[f].data)

\* C3: a start of the game with no save file, or with a selected save file
\* that is unreadable, invalid or incomplete, does not crash: the game runs
\* with a fresh state (turn_count 0, score 0, health 100, not over).
C3_LoadFallsBack ==
    [][pc = "off" /\ pc' # "off" /\
       (json_files(files) = {} \/ BadSave(files, latest_file(files, json_files(files))))
       => pc' = "running" /\ FreshGame(gs') /\ last_load'.outcome \in {"new", "fallback"}]_vars

\* C3's case: the game started on a save the game itself failed to write.
C3_Witness ==
    /\ pc = "running"
    /\ last_load.outcome = "fallback"
    /\ last_load.file \in DOMAIN files
    /\ files[last_load.file].kind = "invalid"
    /\ files[last_load.file].mtime >= ClockStart
    /\ FreshGame(gs)

\* C4 as stated: the entity lists of a loaded state are the saved lists.
C4_ListsPersist ==
    last_load.has_orig =>
        /\ last_load.result.enemies = last_load.orig.enemies
        /\ last_load.result.treasures = last_load.orig.treasures
        /\ last_load.result.npcs = last_load.orig.npcs
        /\ last_load.result.doors = last_load.orig.doors
        /\ last_load.result.keys_positions = last_load.orig.keys_positions

IsSaveName(f) ==
    /\ Len(f) >= 5
    /\ SubSeq(f, 1, 5) = <<"s", "a", "v", "e", "_">>
    /\ SubSeq(f, Len(f) - 4, Len(f)) = <<".", "j", "s", "o", "n">>

\* C6: a start of the game considers exactly the files named save_*.json
\* and selects the one modified last; every file the game saved is among
\* them; and when the file modified last is one the game saved, the game
\* continues from that save whatever its turn number.
C6_LoadsLatestSave ==
    [][pc = "off" /\ pc' # "off"
       => LET cands == { f \in DOMAIN files : IsSaveName(f) }
          IN /\ DOMAIN saved \subseteq cands
             /\ cands = {} <=> last_load'.outcome = "new"
             /\ cands # {} =>
                   /\ last_load'.file \in cands
                   /\ \A g \in cands : files[g].mtime <= files[last_load'.file].mtime
             /\ \A f \in DOMAIN saved :
                   (\A g \in cands : files[g].mtime <= files[f].mtime)
                   => /\ last_load'.outcome = "loaded"
                      /\ last_load'.file = f
                      /\ SameGame(saved[f], gs')]_vars

\* C6's case: the game saved at turn 0 into a directory that held the save
\* of turn 2, and the next start loaded the save of turn 0.
C6_Witness ==
    /\ pc = "running"
    /\ last_load.has_orig
    /\ last_load.file = SaveFileName(0)
    /\ SaveFileName(2) \in DOMAIN files
    /\ files[SaveFileName(2)].kind = "json"
    /\ files[SaveFileName(2)].mtime < files[SaveFileName(0)].mtime
    /\ gs.turn_count = 0

----------------------------------------------------------------------------
(* src/automation.py.  A command is a sequence of characters.              *)

Whitespace == {" ", "\t", "\n"}

RECURSIVE lstrip(_)
lstrip(s) == IF s # <<>> /\ Head(s) \in Whitespace THEN lstrip(Tail(s)) ELSE s

RECURSIVE rstrip(_)
rstrip(s) == IF s # <<>> /\ s[Len(s)] \in Whitespace
             THEN rstrip(SubSeq(s, 1, Len(s) - 1)) ELSE s

\* str.strip()
strip(s) == rstrip(lstrip(s))

\* The first word of s and the rest after it: [word, rest].
RECURSIVE TakeWord(_, _)
TakeWord(word, s) ==
    IF s = <<>> \/ Head(s) \in Whitespace THEN [word |-> word, rest |-> s]
    ELSE TakeWord(Append(word, Head(s)), Tail(s))

\* str.split(): the words between runs of whitespace
RECURSIVE split(_)
split(s) ==
    IF lstrip(s) = <<>> THEN <<>>
    ELSE <<TakeWord(<<>>, lstrip(s)).word>> \o split(TakeWord(<<>>, lstrip(s)).rest)

\* command.split(" ", 1)[1] for a command that starts with "keyboard "
AfterFirstSpace(s) ==
    LET i == CHOOSE k \in 1..Len(s) : s[k] = " " /\ \A j \in 1..k - 1 : s[j] # " "
    IN SubSeq(s, i + 1, Len(s))

DigitSet == {"0", "1", "2", "3", "4", "5", "6", "7", "8", "9"}
AllDigits(s) == s # <<>> /\ \A i \in 1..Len(s) : s[i] \in DigitSet

\* Whether int(s) returns (a sign, then decimal digits) or raises ValueError.
IsInt(s) ==
    IF s # <<>> /\ Head(s) \in {"+", "-"} THEN AllDigits(Tail(s)) ELSE AllDigits(s)

DigitValue(c) == CHOOSE d \in 0..9 : DigitChars[d + 1] = c

RECURSIVE NatValue(_)
NatValue(s) == IF s = <<>> THEN 0
               ELSE NatValue(SubSeq(s, 1, Len(s) - 1)) * 10 + DigitValue(s[Len(s)])

\* int(s) for a string IsInt accepts
int(s) == IF Head(s) = "-" THEN -NatValue(Tail(s))
          ELSE IF Head(s) = "+" THEN NatValue(Tail(s))
          ELSE NatValue(s)

UpperChars == <<"A", "B", "C", "D", "E", "F", "G", "H", "I", "J", "K", "L", "M", "N", "O", "P", "Q", "R", "S", "T", "U", "V", "W", "X", "Y", "Z">>
LowerChars == <<"a", "b", "c", "d", "e", "f", "g", "h", "i", "j", "k", "l", "m", "n", "o", "p", "q", "r", "s", "t", "u", "v", "w", "x", "y", "z">>

lower_char(c) ==
    IF \E i \in 1..Len(UpperChars) : UpperChars[i] = c
    THEN LowerChars[CHOOSE i \in 1..Len(UpperChars) : UpperChars[i] = c]
    ELSE c

\* str.lower()
lower(s) == [i \in 1..Len(s) |-> lower_char(s[i])]

\* key_mapping.get(key.lower(), key) or key
mapped_key(key) ==
    LET k == lower(key)
        got == CASE k = <<"w">> -> <<"w">>
                 [] k = <<"a">> -> <<"a">>
                 [] k = <<"s">> -> <<"s">>
                 [] k = <<"d">> -> <<"d">>
                 [] k = <<"r">> -> <<"r">>
                 [] k = <<"s", "p", "a", "c", "e">> -> <<"s", "p", "a", "c", "e">>
                 [] k = <<"e", "n", "t", "e", "r">> -> <<"R", "e", "t", "u", "r", "n">>
                 [] k = <<"e", "s", "c">> -> <<"E", "s", "c", "a", "p", "e">>
                 [] OTHER -> key
    IN IF got = <<>> THEN key ELSE got

\* What one subprocess.run call can do: exit 0, exit non-zero (with
\* check=True: CalledProcessError), or fail to start (OSError, for example
\* FileNotFoundError when the program is not installed).
Outcomes == {"ok", "nonzero", "oserror"}

\* One subprocess invocation in the log.  by: -1 wait_for_gui, 0 the
\* initial screenshot, i >= 1 the i-th command.
Call(by, op, key, x, y) == [by |-> by, op |-> op, key |-> key, x |-> x, y |-> y]

\* The result of a method: the object's fields after it, what it returned
\* ("none", "true", "false", or "path" for a file path) and whether it
\* raised instead.
Result(a, ret, raised) == [a |-> a, ret |-> ret, raised |-> raised]

Logged(a, by, op, key, x, y) == [a EXCEPT !.calls = Append(@, Call(by, op, key, x, y))]

\* subprocess.run(..., check=True) inside try/except CalledProcessError:
\* continue with next on exit 0, return `failed` on a non-zero exit, and
\* let an OSError propagate.
Checked(a, outcome, next, failed) ==
    CASE outcome = "ok" -> next
      [] outcome = "nonzero" -> Result(a, failed, FALSE)
      [] OTHER -> Result(a, "none", TRUE)

\* subprocess.run(..., check=False): the exit status is ignored.
Unchecked(a, outcome, next) ==
    IF outcome = "oserror" THEN Result(a, "none", TRUE) ELSE next

\* take_screenshot (src/automation.py:20-33); out is scrot's outcome.
take_screenshot(a, by, out) ==
    Checked(Logged([a EXCEPT !.screenshot_count = @ + 1], by, "scrot", <<>>, 0, 0),
            out,
            Result(Logged([a EXCEPT !.screenshot_count = @ + 1], by, "scrot", <<>>, 0, 0),
                   "path", FALSE),
            "none")

\* send_keyboard_event (src/automation.py:35-81); outs are the outcomes of
\* its subprocess calls, in order.
KeyUp(a, by, key, outs) ==
    Unchecked(Logged(a, by, "keyup", key, 0, 0), outs[4],
              Result(Logged(a, by, "keyup", key, 0, 0), "true", FALSE))

KeyDownUp(a, by, key, outs) ==
    Unchecked(Logged(a, by, "keydown", key, 0, 0), outs[3],
              KeyUp(Logged(a, by, "keydown", key, 0, 0), by, key, outs))

KeyToWindow(a, by, key, outs) ==
    Checked(Logged(a, by, "key --window", key, 0, 0), outs[2],
            KeyDownUp(Logged(a, by, "key --window", key, 0, 0), by, key, outs),
            "false")

send_keyboard_event(a, by, key, outs) ==
    IF a.window_id # "None"
    THEN Checked(Logged(a, by, "windowfocus", <<>>, 0, 0), outs[1],
                 KeyToWindow(Logged(a, by, "windowfocus", <<>>, 0, 0), by,
                             mapped_key(key), outs),
                 "false")
    ELSE Checked(Logged(a, by, "key", mapped_key(key), 0, 0), outs[1],
                 Result(Logged(a, by, "key", mapped_key(key), 0, 0), "true", FALSE),
                 "false")

\* send_click_event (src/automation.py:83-102)
Click(a, by, x, y, out) ==
    Checked(Logged(a, by, "click", <<>>, 0, 0), out,
            Result(Logged(a, by, "click", <<>>, 0, 0), "true", FALSE),
            "false")

MoveAndClick(a, by, x, y, out1, out2) ==
    Checked(Logged(a, by, "mousemove", <<>>, x, y), out1,
            Click(Logged(a, by, "mousemove", <<>>, x, y), by, x, y, out2),
            "false")

send_click_event(a, by, x, y, outs) ==
    IF a.window_id # "None"
    THEN Checked(Logged(a, by, "windowfocus", <<>>, 0, 0), outs[1],
                 MoveAndClick(Logged(a, by, "windowfocus", <<>>, 0, 0), by, x, y,
                              outs[2], outs[3]),
                 "false")
    ELSE MoveAndClick(a, by, x, y, outs[1], outs[2])

\* What the command's send_* call did, kept for the record of the run:
\* "true", "false", "raised", or "none" when the command sent no event.
Sent(a, how) == [a EXCEPT !.sent = Append(@, how)]

\* A faulty variant of FollowUp: the screenshot is taken whatever send_* returned.
FollowUp_always(sent, by, out) ==
    IF sent.raised THEN Result(Sent(sent.a, "raised"), "none", TRUE)
    ELSE LET shot == take_screenshot(Sent(sent.a, sent.ret), by, out)
         IN Result(shot.a, "none", shot.raised)

\* if success: self.take_screenshot(...), after send_* gave sent.
FollowUp(sent, by, out) ==
    IF sent.raised THEN Result(Sent(sent.a, "raised"), "none", TRUE)
    ELSE IF sent.ret # "true" THEN Result(Sent(sent.a, sent.ret), "none", FALSE)
    ELSE LET shot == take_screenshot(Sent(sent.a, "true"), by, out)
         IN Result(shot.a, "none", shot.raised)

KeyboardPrefix == <<"k", "e", "y", "b", "o", "a", "r", "d", " ">>
ClickPrefix == <<"c", "l", "i", "c", "k", " ">>
ScreenshotCommand == <<"s", "c", "r", "e", "e", "n", "s", "h", "o", "t">>
WaitCommand == <<"w", "a", "i", "t">>

\* The click branch, on the words of the command.
ClickCommand(a, by, parts, outs) ==
    IF Len(parts) >= 3
    THEN IF IsInt(parts[2]) /\ IsInt(parts[3])
         THEN FollowUp(send_click_event(a, by, int(parts[2]), int(parts[3]), outs),
                       by, outs[Len(outs)])
         ELSE Result(Sent(a, "none"), "none", FALSE)
    ELSE Result(Sent(a, "none"), "none", FALSE)

\* The branches of execute_command, on the stripped command.
Dispatch(a, by, command, outs) ==
    IF startswith(command, KeyboardPrefix)
    THEN FollowUp(send_keyboard_event(a, by, AfterFirstSpace(command), outs), by,
                  outs[Len(outs)])
    ELSE IF startswith(command, ClickPrefix)
    THEN ClickCommand(a, by, split(command), outs)
    ELSE IF command = ScreenshotCommand
    THEN LET shot == take_screenshot(Sent(a, "none"), by, outs[1])
         IN Result(shot.a, "none", shot.raised)
    ELSE Result(Sent(a, "none"), "none", FALSE)

\* execute_command (src/automation.py:224-257) for the command number by;
\* outs are the outcomes of the subprocess calls it makes, in order, the
\* follow-up screenshot's last.
execute_command(a, by, command, outs) == Dispatch(a, by, strip(command), outs)

\* wait_for_gui (src/automation.py:104-222).  display is what every xdotool
\* search of this wait meets: "found" (a window), "empty" (no window) or
\* "missing" (xdotool cannot be started); every exception is caught inside.
FoundWindow == "4194311"
TargetWindows == {"None", "1293", "GLB Asset"}
IsDigitTarget(t) == t = "1293"

wait_for_gui(a, display) ==
    LET named == IF IsDigitTarget(a.target_window)
                 THEN [a EXCEPT !.window_id = a.target_window]
                 ELSE a
        logged == Logged(named, -1, "search", <<>>, 0, 0)
    IN IF display = "found"
       THEN IF IsDigitTarget(a.target_window)
            THEN Result(logged, "true", FALSE)
            ELSE Result([logged EXCEPT !.window_id = FoundWindow], "true", FALSE)
       ELSE Result(logged, "false", FALSE)

----------------------------------------------------------------------------
(* The automation script's main (SpecAuto).                                *)

\* The commands a run may be given.
CmdKeyboardW == <<"k", "e", "y", "b", "o", "a", "r", "d", " ", "w">>
CmdKeyboardEnter == <<" ", "k", "e", "y", "b", "o", "a", "r", "d", " ", "E", "n", "t", "e", "r", " ">>
CmdClick == <<" ", "c", "l", "i", "c", "k", " ", "1", "0", " ", "2", "0", " ">>
CmdClickOne == <<"c", "l", "i", "c", "k", " ", "1", "0">>
CmdClickLetters == <<"c", "l", "i", "c", "k", " ", "a", " ", "b">>
CmdScreenshot == <<"s", "c", "r", "e", "e", "n", "s", "h", "o", "t">>
CmdWait == <<"w", "a", "i", "t">>
CmdJump == <<"j", "u", "m", "p">>
CmdKeyboardOnly == <<"k", "e", "y", "b", "o", "a", "r", "d", " ">>

SampleCommands ==
    { CmdKeyboardW, CmdKeyboardEnter, CmdClick, CmdClickOne,
      CmdClickLetters, CmdScreenshot, CmdWait, CmdJump,
      CmdKeyboardOnly }

\* The argument lists of at most n commands.
RECURSIVE CommandLists(_)
CommandLists(n) ==
    IF n = 0 THEN {<<>>}
    ELSE CommandLists(n - 1) \cup
         { Append(l, c) : l \in { m \in CommandLists(n - 1) : Len(m) = n - 1 },
                          c \in SampleCommands }

MaxCommands == 2

ArgumentLists == CommandLists(MaxCommands)

NewAutomation(commands, target_window) ==
    [pc |-> "wait_gui", commands |-> commands, target_window |-> target_window,
     window_id |-> "None", screenshot_count |-> 0, i |-> 1, gui |-> "none",
     executed |-> <<>>, sent |-> <<>>, calls |-> <<>>]

InitAuto ==
    /\ pc = "off"
    /\ gs = NoState
    /\ files = <<>>
    /\ clock = ClockStart
    /\ used = [runs |-> 0, work |-> 0]
    /\ saved = <<>>
    /\ last_load = NoLoad
    /\ auto = AutoOff
    /\ gen = GenOff

\* main up to GameAutomation(...): no command prints the usage and returns.
AutoStart(commands, target_window) ==
    /\ auto.pc = "off"
    /\ auto' = IF commands = <<>> THEN [pc |-> "usage"]
               ELSE NewAutomation(commands, target_window)

\* After a method: the fields it left, and "aborted" when it raised.
AutoAfter(res, next_pc) ==
    [res.a EXCEPT !.pc = IF res.raised THEN "aborted" ELSE next_pc]

\* automation.wait_for_gui(); its result does not stop the run.
AutoWaitForGui(display) ==
    /\ auto.pc = "wait_gui"
    /\ auto' = [AutoAfter(wait_for_gui(auto, display), "initial") EXCEPT
                  !.gui = wait_for_gui(auto, display).ret]

\* automation.take_screenshot("initial")
AutoInitialScreenshot(out) ==
    /\ auto.pc = "initial"
    /\ auto' = AutoAfter(take_screenshot(auto, 0, out), "commands")

\* The most subprocess calls one command can make: focus, key, keydown,
\* keyup and scrot for a key sent to a window, key and scrot without one;
\* focus, mousemove, click and scrot for a click.
CallsOf(a, command) ==
    IF startswith(strip(command), KeyboardPrefix)
    THEN IF a.window_id # "None" THEN 5 ELSE 2
    ELSE IF startswith(strip(command), ClickPrefix)
    THEN IF a.window_id # "None" THEN 4 ELSE 3
    ELSE 1

\* One iteration of for command in args.commands.
Advanced(a) == IF a.pc = "commands" THEN [a EXCEPT !.i = @ + 1] ELSE a

AutoExecuteCommand(outs) ==
    /\ auto.pc = "commands"
    /\ auto.i <= Len(auto.commands)
    /\ auto' = Advanced(AutoAfter(execute_command([auto EXCEPT !.executed = Append(@, auto.i)],
                                                  auto.i, auto.commands[auto.i], outs),
                                  "commands"))

\* print("Automation complete. ...")
AutoComplete ==
    /\ auto.pc = "commands"
    /\ auto.i > Len(auto.commands)
    /\ auto' = [auto EXCEPT !.pc = "done"]

Displays == {"found", "empty", "missing"}

NextAuto ==
    /\ \/ /\ auto.pc = "off"
          /\ \E commands \in ArgumentLists, t \in TargetWindows :
                 AutoStart(commands, t)
       \/ \E display \in Displays : AutoWaitForGui(display)
       \/ \E out \in Outcomes : AutoInitialScreenshot(out)
       \/ /\ auto.pc = "commands" /\ auto.i <= Len(auto.commands)
          /\ \E outs \in [1..CallsOf(auto, auto.commands[auto.i]) -> Outcomes] :
                 AutoExecuteCommand(outs)
       \/ AutoComplete
    /\ UNCHANGED <<pc, gs, files, clock, used, saved, last_load, gen>>

SpecAuto == InitAuto /\ [][NextAuto]_vars

----------------------------------------------------------------------------
(* Properties of the automation script (SpecAuto).                         *)

AutoStarted == auto.pc \notin {"off", "usage"}

\* C7 as stated: no failing scrot or xdotool invocation aborts the run, and
\* no send_* call raises.
C7_NeverAborts ==
    AutoStarted =>
        /\ auto.pc # "aborted"
        /\ \A k \in 1..Len(auto.sent) : auto.sent[k] # "raised"

\* C8 as stated: the subprocesses run in the order wait_for_gui, initial
\* screenshot, command 1, command 2, ..., and a run that has ended has
\* executed each command of the argument list exactly once, in order.
C8_Sequential ==
    AutoStarted =>
        /\ \A m, n \in 1..Len(auto.calls) : m < n => auto.calls[m].by <= auto.calls[n].by
        /\ auto.pc \in {"done", "aborted"} =>
               auto.executed = [k \in 1..Len(auto.commands) |-> k]

\* The subprocess calls of the k-th command, in order.
CallsBy(k) ==
    LET Mine(e) == e.by = k
    IN SelectSeq(auto.calls, Mine)

OpsBy(k) == [n \in 1..Len(CallsBy(k)) |-> CallsBy(k)[n].op]

Screenshots ==
    LET Scrot(e) == e.op = "scrot"
    IN Len(SelectSeq(auto.calls, Scrot))

\* The commands of SampleCommands by the shape C9 gives them.
KeyboardShaped == {CmdKeyboardW, CmdKeyboardEnter}
ClickShaped == {CmdClick}
Unrecognised == {CmdClickOne, CmdClickLetters, CmdJump, CmdKeyboardOnly}
KeyNamed(c) == IF c = CmdKeyboardW THEN <<"w">> ELSE <<"R", "e", "t", "u", "r", "n">>

\* C9: of the executed commands, an unrecognised one and wait start no
\* subprocess and send no event; screenshot starts scrot alone; a keyboard
\* command attempts its key, a click command its coordinates, and either
\* takes the follow-up screenshot exactly when the event was sent; and
\* screenshot_count counts the scrot invocations.
C9_CommandShapes ==
    AutoStarted =>
        /\ auto.screenshot_count = Screenshots
        /\ Len(auto.sent) = Len(auto.executed)
        /\ \A k \in 1..Len(auto.executed) :
               LET c == auto.commands[k]
               IN /\ c \in Unrecognised \cup {CmdWait} =>
                        CallsBy(k) = <<>> /\ auto.sent[k] = "none"
                  /\ c = CmdScreenshot =>
                        OpsBy(k) = <<"scrot">> /\ auto.sent[k] = "none"
                  /\ c \in KeyboardShaped =>
                        /\ auto.sent[k] # "none"
                        /\ OpsBy(k)[1] \in {"windowfocus", "key"}
                        /\ \A n \in 1..Len(CallsBy(k)) :
                               CallsBy(k)[n].op \in {"key", "key --window", "keydown", "keyup"}
                               => CallsBy(k)[n].key = KeyNamed(c)
                  /\ c \in ClickShaped =>
                        /\ auto.sent[k] # "none"
                        /\ OpsBy(k)[1] \in {"windowfocus", "mousemove"}
                        /\ \A n \in 1..Len(CallsBy(k)) :
                               CallsBy(k)[n].op = "mousemove"
                               => CallsBy(k)[n].x = 10 /\ CallsBy(k)[n].y = 20
                  /\ c \in KeyboardShaped \cup ClickShaped =>
                        ((\E n \in 1..Len(CallsBy(k)) : CallsBy(k)[n].op = "scrot")
                         <=> auto.sent[k] = "true")

\* C9's case: a run that executed a click with letters for coordinates,
\* which did nothing, and then a key whose xdotool failed, which took no
\* screenshot: the only screenshot is the initial one.
C9_Witness ==
    /\ auto.pc = "done"
    /\ auto.commands = <<CmdClickLetters, CmdKeyboardEnter>>
    /\ auto.sent = <<"none", "false">>
    /\ CallsBy(1) = <<>>
    /\ CallsBy(2) # <<>>
    /\ auto.screenshot_count = 1

----------------------------------------------------------------------------
(* src/game_state_generator.py: generate_game_state_json.  The model is    *)
(* the game_state dict the function builds (lines 164-173); its encoding   *)
(* as a string by to_json_string (lines 176-222) is not modelled.          *)

\* 0x7fffffff, the mask of SimpleRandom.randint
Mask31 == 2147483647

\* (x + y) & 0x7fffffff for x, y in 0..Mask31, without leaving 32 bits
AddMod(x, y) == IF x > Mask31 - y THEN x - (Mask31 - y) - 1 ELSE x + y

\* (x * k) & 0x7fffffff for x, k in 0..Mask31, without leaving 32 bits:
\* with x = xh * 2^15 + xl and k = kh * 2^15 + kl, the product is
\* xh * kh * 2^30 + (xh * kl + xl * kh) * 2^15 + xl * kl.
MulMod(x, k) ==
    LET xl == x % 32768
        xh == x \div 32768
        kl == k % 32768
        kh == k \div 32768
        high == ((xh % 2) * (kh % 2)) * 1073741824
        mid == ((((xh * kl) % 65536) + ((xl * kh) % 65536)) % 65536) * 32768
    IN AddMod(AddMod(high, mid), xl * kl)

\* self.state = (self.state * 1103515245 + 12345) & 0x7fffffff
LcgNext(state) == AddMod(MulMod(state, 1103515245), 12345)

\* randint's return value, state being the state after its update
Drawn(state, min_val, max_val) == min_val + (state % (max_val - min_val + 1))

\* A seed argument is <<>> for None and <<k>> for the integer k.
SimpleRandom(seed) == IF seed = <<>> THEN 12345 ELSE seed[1]

GRID_SIZE == 12

difficulty_settings ==
    [easy |-> [optics |-> <<3, 6>>, sources |-> <<1, 2>>, wells |-> <<2, 3>>],
     medium |-> [optics |-> <<6, 10>>, sources |-> <<1, 3>>, wells |-> <<2, 4>>],
     hard |-> [optics |-> <<8, 15>>, sources |-> <<2, 4>>, wells |-> <<3, 5>>]]

\* difficulty_settings.get(difficulty, difficulty_settings["medium"])
settings_of(difficulty) ==
    IF difficulty \in DOMAIN difficulty_settings THEN difficulty_settings[difficulty]
    ELSE difficulty_settings["medium"]

Cell(type, rotation) == [type |-> type, rotation |-> rotation, color_filter |-> "None"]

\* The grid of empty cells; the cell at column x, row y is grid[<<x, y>>].
EmptyGrid == [c \in (0..GRID_SIZE - 1) \X (0..GRID_SIZE - 1) |-> Cell("empty", 0)]

\* available_positions at the start: (x, y) for y in range, for x in range
AllPositions ==
    [k \in 1..GRID_SIZE * GRID_SIZE |-> <<(k - 1) % GRID_SIZE, (k - 1) \div GRID_SIZE>>]

\* list.remove(pos) when pos is in the list: its first occurrence goes.
Remove(seq, pos) ==
    IF \E k \in 1..Len(seq) : seq[k] = pos
    THEN Pop(seq, CHOOSE k \in 1..Len(seq) : seq[k] = pos /\ \A j \in 1..k - 1 : seq[j] # pos)
    ELSE seq

colors == <<"WHITE", "RED", "GREEN", "BLUE", "YELLOW", "CYAN", "MAGENTA">>
edges == <<"left", "right", "top", "bottom">>
optic_types == <<"mirror", "prism", "splitter">>

\* The function's locals while it runs; state is rng.state.
NewBoard(state) ==
    [grid |-> EmptyGrid, available_positions |-> AllPositions, inner_positions |-> <<>>,
     beam_sources |-> <<>>, crystal_wells |-> <<>>, settings |-> <<>>,
     state |-> state]

\* Forces b, so that a loop's iterations are evaluated one after another.
Built(b) == b.state >= 0

\* A faulty variant of EdgeCell: every source is put on the same corner.
EdgeCell_corner(edge, p) == <<0, 0>>

\* The edge's cell for the drawn coordinate p, and the direction of its beam.
EdgeCell(edge, p) ==
    CASE edge = "left" -> <<0, p>>
      [] edge = "right" -> <<GRID_SIZE - 1, p>>
      [] edge = "top" -> <<p, 0>>
      [] OTHER -> <<p, GRID_SIZE - 1>>

EdgeDirection(edge) ==
    CASE edge = "left" -> "EAST"
      [] edge = "right" -> "WEST"
      [] edge = "top" -> "SOUTH"
      [] OTHER -> "NORTH"

\* The body of if grid[y][x]["type"] == "empty"; state is after rng.choice(colors).
PutSource(b, edge, cell, state) ==
    [b EXCEPT !.grid[cell] = Cell("beam_source", 0),
              !.beam_sources = Append(@, [position |-> [x |-> cell[1], y |-> cell[2]],
                                          direction |-> EdgeDirection(edge),
                                          color |-> colors[1 + Drawn(state, 0, Len(colors) - 1)]]),
              !.available_positions = Remove(@, cell),
              !.state = state]

\* state is after the coordinate's randint.
TrySource(b, edge, cell, state) ==
    IF b.grid[cell].type = "empty" THEN PutSource(b, edge, cell, LcgNext(state))
    ELSE [b EXCEPT !.state = state]

SourceOn(b, edge, state) ==
    TrySource(b, edge, EdgeCell(edge, Drawn(state, 0, GRID_SIZE - 1)), state)

\* One iteration of for _ in range(num_sources); state is after rng.choice(edges).
SourceFrom(b, state) ==
    SourceOn(b, edges[1 + Drawn(state, 0, Len(edges) - 1)], LcgNext(state))

RECURSIVE AddSources(_, _)
AddSources(b, n) ==
    IF ~Built(b) \/ n = 0 THEN b ELSE AddSources(SourceFrom(b, LcgNext(b.state)), n - 1)

\* A faulty variant of InnerPositions: the edges are not avoided.
InnerPositions_all(available) == available

\* [(x, y) for x, y in available_positions if 1 <= x <= GRID_SIZE - 2 and ...]
InnerPositions(available) ==
    LET Inner(c) == /\ 1 <= c[1] /\ c[1] <= GRID_SIZE - 2
                    /\ 1 <= c[2] /\ c[2] <= GRID_SIZE - 2
    IN SelectSeq(available, Inner)

\* The body of the wells loop for the drawn index k (from 1).
PutWell(b, k, state) ==
    [b EXCEPT !.grid[b.inner_positions[k]] = Cell("crystal_well", 0),
              !.crystal_wells = Append(@, [x |-> b.inner_positions[k][1],
                                           y |-> b.inner_positions[k][2]]),
              !.inner_positions = Pop(@, k),
              !.available_positions = Remove(@, b.inner_positions[k]),
              !.state = state]

WellFrom(b, state) ==
    IF b.inner_positions = <<>> THEN b
    ELSE PutWell(b, 1 + Drawn(state, 0, Len(b.inner_positions) - 1), state)

RECURSIVE AddWells(_, _)
AddWells(b, n) ==
    IF ~Built(b) \/ n = 0 THEN b
    ELSE AddWells(WellFrom(b, LcgNext(b.state)), n - 1)

\* The body of the optics loop; k is the drawn index (from 1), state1 is after
\* rng.choice(optic_types) and state2 after the rotation's randint.
PutOptic(b, k, state1, state2) ==
    [b EXCEPT !.grid[b.available_positions[k]] =
                  Cell(optic_types[1 + Drawn(state1, 0, Len(optic_types) - 1)],
                       Drawn(state2, 0, 3) * 90),
              !.available_positions = Pop(@, k),
              !.state = state2]

OpticTyped(b, k, state1) == PutOptic(b, k, state1, LcgNext(state1))

OpticFrom(b, state) ==
    IF b.available_positions = <<>> THEN b
    ELSE OpticTyped(b, 1 + Drawn(state, 0, Len(b.available_positions) - 1),
                    LcgNext(state))

RECURSIVE AddOptics(_, _)
AddOptics(b, n) ==
    IF ~Built(b) \/ n = 0 THEN b
    ELSE AddOptics(OpticFrom(b, LcgNext(b.state)), n - 1)

\* The loops' counts: num = rng.randint(lo, hi), then min(num, len(list)) rounds.
WithSources(b, state) ==
    AddSources([b EXCEPT !.state = state],
               Drawn(state, b.settings.sources[1], b.settings.sources[2]))

WellsOver(b, state) ==
    AddWells([b EXCEPT !.state = state],
             Min(Drawn(state, b.settings.wells[1], b.settings.wells[2]),
                 Len(b.inner_positions)))

WithWells(b, state) ==
    WellsOver([b EXCEPT !.inner_positions = InnerPositions(b.available_positions)], state)

WithOptics(b, state) ==
    AddOptics([b EXCEPT !.state = state],
              Min(Drawn(state, b.settings.optics[1], b.settings.optics[2]),
                  Len(b.available_positions)))

\* The fallback of the player's position: the first empty cell, row by row.
FirstEmpty(grid) ==
    LET empty == { k \in 1..Len(AllPositions) : grid[AllPositions[k]].type = "empty" }
    IN IF empty = {} THEN <<>>
       ELSE <<AllPositions[CHOOSE k \in empty : \A j \in empty : k <= j]>>

PlayerAmong(player_positions, state) ==
    IF player_positions = <<>> THEN <<0, 0>>
    ELSE player_positions[1 + Drawn(LcgNext(state), 0, Len(player_positions) - 1)]

PlayerPosition(b) ==
    PlayerAmong(IF b.available_positions # <<>> THEN b.available_positions
                ELSE FirstEmpty(b.grid), b.state)

\* game_state (lines 164-173)
GameStateOf(b, pos) ==
    [player_pos |-> [x |-> pos[1], y |-> pos[2]],
     grid |-> b.grid,
     beam_sources |-> b.beam_sources,
     crystal_wells |-> b.crystal_wells,
     step_count |-> 0, score |-> 0, goals_reached |-> 0, beam_segments |-> <<>>]

\* The three placements, each starting with the draw of its count.
Sourced(b) == WithSources(b, LcgNext(b.state))
Welled(b) == WithWells(b, LcgNext(b.state))
Opticked(b) == WithOptics(b, LcgNext(b.state))
Finished(b) == GameStateOf(b, PlayerPosition(b))

\* The game_state built by generate_game_state_json(seed, difficulty).
generate_game_state(seed, difficulty) ==
    Finished(Opticked(Welled(Sourced(
        [NewBoard(SimpleRandom(seed)) EXCEPT !.settings = settings_of(difficulty)]))))

\* The seeds of generate_example_states (lines 232-242)
ExampleSeeds == {42, 123, 456, 789, 999}

\* The largest of the small seeds tried besides None and the example seeds.
MaxSeed == 30

Seeds == {<<>>} \cup { <<k>> : k \in (0..MaxSeed) \cup ExampleSeeds }

\* The documented difficulties and one that has no settings.
Difficulties == {"easy", "medium", "hard", "expert"}

\* One call of generate_game_state_json(seed, difficulty).
GenCall(seed, difficulty) ==
    /\ gen.pc = "off"
    /\ gen' = [pc |-> "done", seed |-> seed, difficulty |-> difficulty,
               state |-> generate_game_state(seed, difficulty)]
    /\ UNCHANGED <<pc, gs, files, clock, used, saved, last_load, auto>>

InitGen == InitAuto

NextGen == \E seed \in Seeds, difficulty \in Difficulties : GenCall(seed, difficulty)

SpecGen == InitGen /\ [][NextGen]_vars

\* The cells of a generated board that hold an object of one of the types.
CellsTyped(g, types) == { c \in DOMAIN g.grid : g.grid[c].type \in types }

PositionsOf(list) == { <<list[k].x, list[k].y>> : k \in 1..Len(list) }

SourcePositions(g) ==
    { <<g.beam_sources[k].position.x, g.beam_sources[k].position.y>> :
        k \in 1..Len(g.beam_sources) }

\* A source on its edge, pointing into the grid.
SourceValid(g, src) ==
    /\ <<src.position.x, src.position.y>> \in DOMAIN g.grid
    /\ g.grid[<<src.position.x, src.position.y>>].type = "beam_source"
    /\ \/ src.position.x = 0 /\ src.direction = "EAST"
       \/ src.position.x = GRID_SIZE - 1 /\ src.direction = "WEST"
       \/ src.position.y = 0 /\ src.direction = "SOUTH"
       \/ src.position.y = GRID_SIZE - 1 /\ src.direction = "NORTH"

WellValid(g, well) ==
    /\ 1 <= well.x /\ well.x <= 10
    /\ 1 <= well.y /\ well.y <= 10
    /\ g.grid[<<well.x, well.y>>].type = "crystal_well"

BoardValid(g) ==
    /\ \A k \in 1..Len(g.beam_sources) : SourceValid(g, g.beam_sources[k])
    /\ \A k \in 1..Len(g.crystal_wells) : WellValid(g, g.crystal_wells[k])
    /\ Cardinality(SourcePositions(g)) = Len(g.beam_sources)
    /\ Cardinality(PositionsOf(g.crystal_wells)) = Len(g.crystal_wells)
    /\ SourcePositions(g) \cap PositionsOf(g.crystal_wells) = {}
    /\ CellsTyped(g, {"beam_source"}) \subseteq SourcePositions(g)
    /\ CellsTyped(g, {"crystal_well"}) \subseteq PositionsOf(g.crystal_wells)
    /\ <<g.player_pos.x, g.player_pos.y>> \in (0..11) \X (0..11)
    /\ g.grid[<<g.player_pos.x, g.player_pos.y>>].type = "empty"

\* C11: whatever the seed and the difficulty, the generated board is valid:
\* every beam source is on an edge cell of type beam_source and points into
\* the grid, every crystal well is an inner cell (1..10) of type crystal_well,
\* no cell holds two objects, every cell of type beam_source or crystal_well
\* is in its list, and the player stands on an empty cell of the 12x12 grid.
C11_BoardValid == gen.pc = "done" => BoardValid(gen.state)

\* A board with a source in a corner of the grid, and some wells.
C11_Witness ==
    /\ gen.pc = "done"
    /\ <<GRID_SIZE - 1, 0>> \in SourcePositions(gen.state)
    /\ Len(gen.state.crystal_wells) >= 2

CountInRange(n, range) == range[1] <= n /\ n <= range[2]

\* C12: for a difficulty that has settings, the numbers of beam sources, of
\* crystal wells and of optics on the generated board are each between the
\* minimum and the maximum of that difficulty's setting.
C12_CountsInRange ==
    (gen.pc = "done" /\ gen.difficulty \in DOMAIN difficulty_settings) =>
        /\ CountInRange(Len(gen.state.beam_sources),
                        difficulty_settings[gen.difficulty].sources)
        /\ CountInRange(Len(gen.state.crystal_wells),
                        difficulty_settings[gen.difficulty].wells)
        /\ CountInRange(Cardinality(CellsTyped(gen.state, {"mirror", "prism", "splitter"})),
                        difficulty_settings[gen.difficulty].optics)

\* A hard board with the most sources the setting allows.
C12_Witness ==
    /\ gen.pc = "done"
    /\ gen.difficulty = "hard"
    /\ Len(gen.state.beam_sources) = 4
    /\ Cardinality(CellsTyped(gen.state, {"mirror", "prism", "splitter"})) >= 8

----------------------------------------------------------------------------
(* Further claims about src/game.py (Spec).                                *)

\* C13: the world_map of from_dict(to_dict(s)) is the world_map of s, for
\* every state s of a running game and every state of the random module at
\* the time of the save.
C13_MapKept ==
    pc = "running" =>
        \A r \in RngStates : RoundTrip(gs, r, r).s.world_map = gs.world_map

\* The tile a movement key aims at.
TargetOf(st, key) ==
    Position(st.player.position.x + (IF key = "d" THEN 1 ELSE IF key = "a" THEN -1 ELSE 0),
             st.player.position.y + (IF key = "s" THEN 1 ELSE IF key = "w" THEN -1 ELSE 0))

\* What C14 asks of a tile the player moves to.
TargetFree(st, t) ==
    /\ 0 <= t.x /\ t.x < GRID_WIDTH /\ 0 <= t.y /\ t.y < GRID_HEIGHT
    /\ st.world_map[t.y][t.x] # WALL
    /\ st.world_map[t.y][t.x] # WATER
    /\ \A i \in 1..Len(st.enemies) : st.enemies[i].position # t

\* One KEYDOWN event of the given key, whatever the generator's state and
\* the file system's answer.
KeyEvent(key) == \E r \in RngStates, how \in SaveOutcomes : KeyDown(key, r, how)

\* C14: a movement key changes the player's position only to its target
\* tile and only when that tile is inside the grid, neither WALL nor WATER
\* and free of enemies; when the position stays, the whole game state
\* (turn_count, score, keys, every entity list, the enemies' positions) stays.
C14_MoveRules ==
    [][\A key \in MoveKeys : KeyEvent(key) =>
          IF gs'.player.position # gs.player.position
          THEN /\ gs'.player.position = TargetOf(gs, key)
               /\ TargetFree(gs, TargetOf(gs, key))
          ELSE /\ gs'.turn_count = gs.turn_count
               /\ gs'.player = gs.player
               /\ gs'.enemies = gs.enemies
               /\ gs'.treasures = gs.treasures
               /\ gs'.npcs = gs.npcs
               /\ gs'.doors = gs.doors
               /\ gs'.keys_positions = gs.keys_positions]_vars

\* C14's case: the player has moved away from the start of a new game and
\* now stands next to an enemy, so that one movement key is rejected.
C14_Witness ==
    /\ pc = "running"
    /\ last_load.outcome = "new"
    /\ gs.turn_count > 0
    /\ gs.player.position # Position(GRID_WIDTH \div 2, GRID_HEIGHT \div 2)
    /\ \E key \in MoveKeys : \E i \in 1..Len(gs.enemies) :
           gs.enemies[i].position = TargetOf(gs, key)

DoorAt(st, pos) == \E i \in 1..Len(st.doors) : st.doors[i] = pos

KeysAt(st, pos) ==
    Cardinality({ i \in 1..Len(st.keys_positions) : st.keys_positions[i] = pos })

\* The step is a move of the player onto the tile the key aims at.
MovedBy(key) == KeyEvent(key) /\ gs'.player.position = TargetOf(gs, key)

\* seq without one of its entries equal to pos
OneRemoved(seq, pos, short) ==
    \E i \in 1..Len(seq) : seq[i] = pos /\ short = Pop(seq, i)

\* C15: the player never moves onto a door's tile while holding no key; with
\* a key the move onto a door's tile (otherwise free) is accepted and takes no
\* key; in a game that is not over the list of doors changes only by SPACE
\* pressed on a door's tile with keys > 0, which removes that door, takes
\* exactly one key and adds 100 to the score.
C15_DoorsNeedKeys ==
    [][(pc = "running" /\ pc' = "running" /\ ~gs.game_over) =>
          /\ \A key \in MoveKeys :
                /\ (MovedBy(key) /\ gs.player.keys = 0) => ~DoorAt(gs, TargetOf(gs, key))
                /\ (KeyEvent(key) /\ gs.player.keys > 0 /\ TargetFree(gs, TargetOf(gs, key))
                      /\ DoorAt(gs, TargetOf(gs, key))) =>
                       /\ gs'.player.position = TargetOf(gs, key)
                       /\ gs'.player.keys >= gs.player.keys
                       /\ gs'.player.keys <= gs.player.keys + Min(1, KeysAt(gs, TargetOf(gs, key)))
                       /\ gs'.doors = gs.doors
          /\ gs'.doors # gs.doors =>
                /\ KeyEvent("space")
                /\ gs.player.keys > 0
                /\ OneRemoved(gs.doors, gs.player.position, gs'.doors)
                /\ gs'.player.position = gs.player.position
                /\ gs'.player.keys = gs.player.keys - 1
                /\ gs'.player.score = gs.player.score + 100]_vars

\* C15's case: a loaded game in which the player, holding one key, has
\* stepped onto the door and unlocked it.
C15_Witness ==
    /\ pc = "running"
    /\ last_load.outcome = "loaded"
    /\ DoorAt(last_load.result, gs.player.position)
    /\ gs.player.position # last_load.result.player.position
    /\ ~DoorAt(gs, gs.player.position)
    /\ gs.player.keys = last_load.result.player.keys - 1
    /\ gs.player.score = last_load.result.player.score + 100

\* The player's tile and its four neighbours.
Reach(st) ==
    { Position(st.player.position.x + d[1], st.player.position.y + d[2]) :
        d \in { <<0, 1>>, <<0, -1>>, <<1, 0>>, <<-1, 0>>, <<0, 0>> } }

\* SPACE finds something: an enemy or an NPC within reach, or a treasure or
\* a key on the player's tile, or a door there while the player holds a key.
Interactable(st) ==
    \/ \E i \in 1..Len(st.enemies) : st.enemies[i].position \in Reach(st)
    \/ \E i \in 1..Len(st.npcs) : st.npcs[i].position \in Reach(st)
    \/ \E i \in 1..Len(st.treasures) : st.treasures[i].position = st.player.position
    \/ KeysAt(st, st.player.position) > 0
    \/ DoorAt(st, st.player.position) /\ st.player.keys > 0

\* The move the key asks for is one the rules accept.
Accepted(st, key) ==
    /\ TargetFree(st, TargetOf(st, key))
    /\ st.player.keys > 0 \/ ~DoorAt(st, TargetOf(st, key))

\* What C16 says a key event adds to turn_count in a game that is not over.
TurnsFor(st, key) ==
    IF key \in MoveKeys THEN (IF Accepted(st, key) THEN 1 ELSE 0)
    ELSE IF key = "space" THEN (IF Interactable(st) THEN 1 ELSE 0)
    ELSE 0

\* C16: a key event adds one to turn_count when it is an accepted move or a
\* SPACE that finds something to attack, talk to, pick up or unlock, and
\* nothing otherwise (rejected move, SPACE with nothing in reach, F5, any
\* other key, any key but R in a finished game); turn_count gets smaller
\* only when R starts a new game.
C16_TurnCount ==
    [][(pc = "running" /\ pc' = "running") =>
          /\ \A key \in Keys : KeyEvent(key) =>
                IF gs.game_over
                THEN IF key = "r" THEN gs'.turn_count = 0
                     ELSE gs'.turn_count = gs.turn_count
                ELSE gs'.turn_count = gs.turn_count + TurnsFor(gs, key)
          /\ gs'.turn_count < gs.turn_count => (gs.game_over /\ KeyEvent("r"))]_vars

\* C16's case: a new game two turns on, one of them a move and one a talk
\* that paid a quest reward.
C16_Witness ==
    /\ pc = "running"
    /\ last_load.outcome = "new"
    /\ gs.turn_count = 2
    /\ gs.player.position # Position(GRID_WIDTH \div 2, GRID_HEIGHT \div 2)
    /\ \E i \in 1..Len(gs.npcs) :
           gs.npcs[i].name \in {"Wizard", "Guard"} /\ gs.npcs[i].quest_reward = 0

\* The reward generate_world gives the NPC of that name.
QuestRewardOf(name) ==
    LET k == CHOOSE j \in 1..Len(npc_data) : npc_data[j][1] = name
    IN npc_data[k][3]

\* The score the NPCs have paid so far: NPCs never leave the list, and one
\* whose reward is 0 has paid what its name started with.
RECURSIVE NpcGainedFrom(_, _)
NpcGainedFrom(npcs, i) ==
    IF i > Len(npcs) THEN 0
    ELSE (IF npcs[i].quest_reward = 0 THEN QuestRewardOf(npcs[i].name) ELSE 0)
         + NpcGainedFrom(npcs, i + 1)

NpcGained(st) == NpcGainedFrom(st.npcs, 1)

\* C17: in one game, continued from its save or not, the quest rewards the
\* NPCs have paid add up to 150 at most (each of the four pays at most once).
C17_RewardsOnce == pc = "running" => NpcGained(gs) <= 150

Manhattan(p, q) == Abs(p.x - q.x) + Abs(p.y - q.y)

\* What C18 allows an enemy at from to do while the player stands at player:
\* stay, or take one step towards the player, along x when |dx| > |dy| and
\* along y otherwise, onto a tile of the grid that is neither WALL nor WATER
\* nor the player's.
EnemyStepAllowed(st, player, from, to) ==
    \/ to = from
    \/ /\ Manhattan(to, from) = 1
       /\ Manhattan(to, player) = Manhattan(from, player) - 1
       /\ IF Abs(player.x - from.x) > Abs(player.y - from.y)
          THEN to.y = from.y ELSE to.x = from.x
       /\ 0 <= to.x /\ to.x < GRID_WIDTH /\ 0 <= to.y /\ to.y < GRID_HEIGHT
       /\ st.world_map[to.y][to.x] # WALL
       /\ st.world_map[to.y][to.x] # WATER
       /\ to # player

\* C18: on a player's move every enemy stays or takes one allowed step
\* towards the player's new tile, and the list of enemies is otherwise as it
\* was; a movement key that moves nobody moves no enemy either.
C18_EnemySteps ==
    [][(pc = "running" /\ pc' = "running" /\ ~gs.game_over) =>
          \A key \in MoveKeys : KeyEvent(key) =>
              /\ Len(gs'.enemies) = Len(gs.enemies)
              /\ \A i \in 1..Len(gs.enemies) :
                    /\ [gs'.enemies[i] EXCEPT !.position = gs.enemies[i].position]
                          = gs.enemies[i]
                    /\ EnemyStepAllowed(gs, gs'.player.position,
                                        gs.enemies[i].position, gs'.enemies[i].position)
                    /\ gs'.player.position = gs.player.position =>
                          gs'.enemies[i].position = gs.enemies[i].position]_vars

\* C18's case: one move after the start or the load, an enemy has taken a
\* step and now stands in front of a wall or of water that lies on its way.
C18_Witness ==
    /\ pc = "running"
    /\ last_load.outcome \in {"new", "loaded"}
    /\ gs.turn_count = last_load.result.turn_count + 1
    /\ gs.player.position # last_load.result.player.position
    /\ Len(gs.enemies) = Len(last_load.result.enemies)
    /\ \E i \in 1..Len(gs.enemies) :
           /\ gs.enemies[i].position # last_load.result.enemies[i].position
           /\ gs.world_map[EnemyTarget(gs, gs.enemies[i]).y][EnemyTarget(gs, gs.enemies[i]).x]
                 \in {WALL, WATER}

====
